---- MODULE Spec2Model ----
(***************************************************************************)
(* Model of the load-testing engine of main.go: checkStatus (one probe),   *)
(* runAPITest (the cycle loop, the fan-out/fan-in of one cycle and the     *)
(* reduction of the outcomes), calculateAverageDuration, and runTest, the  *)
(* button's handler that validates the entries and calls runAPITest.       *)
(*                                                                         *)
(* Text (RequestResult.Status, .Error, .Duration, the AvgDurationMS        *)
(* fields) is a sequence of one-character strings, so that the formatting  *)
(* and the parsing the code performs on it are computed, not assumed.      *)
(* Durations are nanosecond counts, as time.Duration is.                   *)
(***************************************************************************)
EXTENDS Integers, Sequences, FiniteSets, TLC

\* ------------------------------------------------------------------ bounds
\* Largest concurrency width (numGoroutines) and cycle count (maxCycles) tried,
\* and the largest number of probes of one run (numGoroutines * maxCycles).
MaxWidth == 2
MaxCycles == 2
MaxProbes == 4

\* ------------------------------------------------------ characters and text
Digits == <<"0", "1", "2", "3", "4", "5", "6", "7", "8", "9">>

IsDigit(c) == \E n \in 1..10 : Digits[n] = c

DigitVal(c) == (CHOOSE n \in 1..10 : Digits[n] = c) - 1

DigitChar(n) == Digits[n + 1]

\* The micro sign U+00B5 that Duration.String writes, and the Greek mu U+03BC
\* that ParseDuration accepts as well; each is one character of the text.
MicroSign == "u00B5"
GreekMu == "u03BC"

\* time.Nanosecond .. time.Second, in nanoseconds.
Nanosecond == 1
Microsecond == 1000
Millisecond == 1000000
Second == 1000000000

RECURSIVE fmtIntRec(_, _)
fmtIntRec(v, acc) ==
    IF v = 0 THEN acc
    ELSE fmtIntRec(v \div 10, <<DigitChar(v % 10)>> \o acc)

\* time.fmtInt: the decimal digits of v, "0" for zero.
fmtInt(v) == IF v = 0 THEN <<"0">> ELSE fmtIntRec(v, <<>>)

RECURSIVE fmtFracRec(_, _, _, _)
fmtFracRec(v, prec, acc, print) ==
    IF prec = 0
    THEN [w |-> IF print THEN <<".">> \o acc ELSE acc, v |-> v]
    ELSE LET digit == v % 10
             p == print \/ digit # 0
         IN  fmtFracRec(v \div 10, prec - 1,
                        IF p THEN <<DigitChar(digit)>> \o acc ELSE acc, p)

\* time.fmtFrac: v/10^prec's fraction without its trailing zeros (w), and the
\* integer part that is left (v).
fmtFrac(v, prec) == fmtFracRec(v, prec, <<>>, FALSE)

\* time.Duration.String for d >= 0 (time.Since and an average of such values
\* are never negative).
DurationString(d) ==
    IF d < Second
    THEN IF d = 0 THEN <<"0", "s">>
         ELSE LET prec == IF d < Microsecond THEN 0
                          ELSE IF d < Millisecond THEN 3 ELSE 6
                  unit == IF d < Microsecond THEN <<"n", "s">>
                          ELSE IF d < Millisecond THEN <<MicroSign, "s">>
                          ELSE <<"m", "s">>
                  fr == fmtFrac(d, prec)
              IN  fmtInt(fr.v) \o fr.w \o unit
    ELSE LET fr == fmtFrac(d, 9)
             secs == fr.v
             mins == secs \div 60
             hours == mins \div 60
             s == fmtInt(secs % 60) \o fr.w \o <<"s">>
             m == IF mins > 0 THEN fmtInt(mins % 60) \o <<"m">> \o s ELSE s
         IN  IF hours > 0 THEN fmtInt(hours) \o <<"h">> \o m ELSE m

\* time.unitMap, without "m" and "h" (their nanosecond counts exceed TLC's
\* 32-bit integers; no text the model produces carries them).
unitMap ==
    (<<"n", "s">> :> Nanosecond) @@ (<<"u", "s">> :> Microsecond) @@
    (<<MicroSign, "s">> :> Microsecond) @@ (<<GreekMu, "s">> :> Microsecond) @@
    (<<"m", "s">> :> Millisecond) @@ (<<"s">> :> Second)

RECURSIVE leadingDigits(_)
\* The number of leading digit characters of s.
leadingDigits(s) ==
    IF s # <<>> /\ IsDigit(Head(s)) THEN 1 + leadingDigits(Tail(s)) ELSE 0

RECURSIVE digitsValue(_, _)
\* The decimal value of the digit string s, continuing from acc.
digitsValue(s, acc) ==
    IF s = <<>> THEN acc
    ELSE digitsValue(Tail(s), acc * 10 + DigitVal(Head(s)))

RECURSIVE pow10(_)
pow10(n) == IF n = 0 THEN 1 ELSE 10 * pow10(n - 1)

RECURSIVE unitLen(_)
\* The number of leading characters of s that are neither '.' nor a digit.
unitLen(s) ==
    IF s # <<>> /\ Head(s) # "." /\ ~IsDigit(Head(s))
    THEN 1 + unitLen(Tail(s)) ELSE 0

Drop(s, n) == SubSeq(s, n + 1, Len(s))

RECURSIVE parseTerms(_, _)
\* The loop of time.ParseDuration over the terms ([0-9]*(\.[0-9]*)?[a-z]+)+:
\* [ok, d]. The fraction is f * unit / scale; scale and unit are powers of
\* ten, so the quotient is taken exactly in integers.
parseTerms(s, d) ==
    IF s = <<>> THEN [ok |-> TRUE, d |-> d]
    ELSE IF ~(Head(s) = "." \/ IsDigit(Head(s))) THEN [ok |-> FALSE, d |-> 0]
    ELSE LET n1 == leadingDigits(s)
             v == digitsValue(SubSeq(s, 1, n1), 0)
             s1 == Drop(s, n1)
             dot == s1 # <<>> /\ Head(s1) = "."
             s2 == IF dot THEN Tail(s1) ELSE s1
             n2 == IF dot THEN leadingDigits(s2) ELSE 0
             f == digitsValue(SubSeq(s2, 1, n2), 0)
             scale == pow10(n2)
             s3 == Drop(s2, n2)
             n3 == unitLen(s3)
             u == SubSeq(s3, 1, n3)
         IN  IF n1 = 0 /\ n2 = 0 THEN [ok |-> FALSE, d |-> 0]
             ELSE IF n3 = 0 THEN [ok |-> FALSE, d |-> 0]
             ELSE IF u \notin DOMAIN unitMap THEN [ok |-> FALSE, d |-> 0]
             ELSE LET unit == unitMap[u]
                      frac == IF f = 0 THEN 0
                              ELSE IF scale <= unit THEN f * (unit \div scale)
                              ELSE f \div (scale \div unit)
                  IN  parseTerms(Drop(s3, n3), d + v * unit + frac)

\* time.ParseDuration, as the code uses it: the duration, or 0 when the text
\* does not parse (the error is discarded at the call).
parseDurationText(s) ==
    LET neg == s # <<>> /\ Head(s) = "-"
        t == IF s # <<>> /\ Head(s) \in {"-", "+"} THEN Tail(s) ELSE s
        r == parseTerms(t, 0)
    IN  IF t = <<"0">> THEN 0
        ELSE IF t = <<>> THEN 0
        ELSE IF ~r.ok THEN 0
        ELSE IF neg THEN 0 - r.d ELSE r.d

RECURSIVE skipSpace(_)
skipSpace(s) ==
    IF s # <<>> /\ Head(s) \in {" ", "\t"} THEN skipSpace(Tail(s)) ELSE s

\* fmt.Sscanf(text, "%d", &statusCode) on a statusCode that is 0 before the
\* call: leading blanks are skipped, an optional sign and the longest run of
\* digits are read; with no digit the scan fails and statusCode stays 0.
scanDecimal(text) ==
    LET s == skipSpace(text)
        neg == s # <<>> /\ Head(s) = "-"
        t == IF s # <<>> /\ Head(s) \in {"-", "+"} THEN Tail(s) ELSE s
        n == leadingDigits(t)
        v == digitsValue(SubSeq(t, 1, n), 0)
    IN  IF n = 0 THEN 0 ELSE IF neg THEN 0 - v ELSE v

\* ------------------------------------------------------------------ inputs
\* The URL under test (non-empty; it holds no character that %q escapes).
TargetURL == <<"h", "t", "t", "p", ":", "/", "/", "h">>

\* What time.Since measures for one http.Get, in nanoseconds.
Latencies == {0, 2000001}

\* parseDurationText on the texts the probes write, computed once.
parsedLatencies ==
    [t \in {DurationString(l) : l \in Latencies} |-> parseDurationText(t)]

\* time.ParseDuration at line 106: parseDurationText, looked up where it is
\* already computed.
ParseDuration(s) ==
    IF s \in DOMAIN parsedLatencies THEN parsedLatencies[s] ELSE parseDurationText(s)

\* Responses http.Get can hand back: StatusCode and the Status text. The last
\* one is a response whose Status carries no number, the case in which the
\* scan of line 102 fails.
Responses ==
    { [StatusCode |-> 200, Status |-> <<"2", "0", "0", " ", "O", "K">>],
      [StatusCode |-> 500,
       Status |-> <<"5", "0", "0", " ", "I", "n", "t", "e", "r", "n", "a", "l",
                    " ", "S", "e", "r", "v", "e", "r", " ", "E", "r", "r", "o", "r">>],
      [StatusCode |-> 0, Status |-> <<>>] }

\* scanDecimal on the status lines the server can send, computed once.
scannedStatuses == [t \in {r.Status : r \in Responses} |-> scanDecimal(t)]

\* fmt.Sscanf at line 102: scanDecimal, looked up where it is already
\* computed.
Sscanf_d(text) ==
    IF text \in DOMAIN scannedStatuses THEN scannedStatuses[text] ELSE scanDecimal(text)

\* The texts of the underlying transport errors; a text may be empty.
InnerErrors == { <<>>, <<"E", "O", "F">> }

\* The text of the error http.Get returns. http.Get returns every error as a
\* *url.Error, whose Error() is fmt.Sprintf("%s %q: %s", Op, URL, Err).
UrlErrorText(u, inner) ==
    <<"G", "e", "t", " ", "\"">> \o u \o <<"\"", ":", " ">> \o inner

\* The outcomes of resp, err := http.Get(url) together with the elapsed time.
HttpGetOutcomes(u) ==
    { [err |-> TRUE, text |-> UrlErrorText(u, e), resp |-> [StatusCode |-> 0, Status |-> <<>>], lat |-> l]
        : e \in InnerErrors, l \in Latencies }
    \cup
    { [err |-> FALSE, text |-> <<>>, resp |-> r, lat |-> l]
        : r \in Responses, l \in Latencies }

\* ------------------------------------------------------------------- state
VARIABLES
    ui,                              \* the widgets of main: entries, labels, progress bar
    url, numGoroutines, maxCycles,   \* the arguments of runAPITest
    pc,                              \* where runAPITest's control thread is
    cycle, i,                        \* the loop variables of lines 74 and 80
    wg,                              \* cycle -> counter of that iteration's WaitGroup
    results,                         \* cycle -> that iteration's channel [buf, cap, closed]
    procs,                           \* the checkStatus goroutines that have not returned
    report, cycleStats, totalDurations, cycleDurations,
    progressLog,                     \* the arguments progress was called with, in order
    fault,                           \* "none", or the panic that ended the program
    obs                              \* what the transport calls really returned (history)

vars == <<ui, url, numGoroutines, maxCycles, pc, cycle, i, wg, results, procs,
          report, cycleStats, totalDurations, cycleDurations, progressLog, fault, obs>>

\* A Go map[int]int: a function on the keys present. m[k]++ creates the key.
EmptyMap == <<>>

Inc(m, k) == IF k \in DOMAIN m THEN [m EXCEPT ![k] = @ + 1] ELSE m @@ (k :> 1)

RequestResult(id, u, status, error, duration) ==
    [ID |-> id, URL |-> u, Status |-> status, Error |-> error, Duration |-> duration]

ZeroResult == RequestResult(0, <<>>, <<>>, <<>>, <<>>)

CycleStats(n) ==
    [CycleNumber |-> n, TotalRequests |-> 0, SuccessCount |-> 0, ErrorCount |-> 0,
     AvgDurationMS |-> <<>>, ResponseCodes |-> EmptyMap]

\* The history variable: transport errors (and those among them whose
\* underlying error has an empty text), completed exchanges, the status codes
\* of the completed exchanges and the sum of their latencies.
ZeroObs == [err |-> 0, bare |-> 0, ok |-> 0, codes |-> EmptyMap, latSum |-> 0]

Observe(o, out) ==
    IF out.err
    THEN [o EXCEPT !.err = @ + 1,
                   !.bare = IF out.text = UrlErrorText(TargetURL, <<>>) THEN @ + 1 ELSE @]
    ELSE [o EXCEPT !.ok = @ + 1, !.codes = Inc(@, out.resp.StatusCode),
                   !.latSum = @ + out.lat]

RECURSIVE SumSeq(_)
SumSeq(s) == IF s = <<>> THEN 0 ELSE Head(s) + SumSeq(Tail(s))

\* The texts of the labels, as sequences of pieces (written without accents).
ResultsPlaceholder == <<"Resultados aparecerao aqui...">>
WaitingStatus == <<"Aguardando inicio...">>
ValidationMessage == <<"Por favor, insira valores validos.">>
RunningStatus == <<"Executando ciclos...">>
FinishedStatus == <<"Concluido!">>

\* Lines 176-178: the widgets once runTest has accepted the input u, n, c.
ClearedWidgets(u, n, c) ==
    [urlEntry |-> u, goroutinesEntry |-> n, cyclesEntry |-> c,
     resultLabel |-> <<>>,
     progressBar |-> [num |-> 0, den |-> 1],
     statusLabel |-> RunningStatus]

\* runAPITest is entered at line 187 with a URL, a width in Widths and a cycle
\* count in Cycles, the widgets being as lines 176-178 leave them.
InitWith(Widths, Cycles) ==
    /\ url = TargetURL
    /\ numGoroutines \in Widths
    /\ maxCycles \in Cycles
    /\ numGoroutines * maxCycles <= MaxProbes
    /\ ui = ClearedWidgets(url, fmtInt(numGoroutines), fmtInt(maxCycles))
    /\ pc = "loop"
    /\ cycle = 1
    /\ i = 0
    /\ wg = <<>>
    /\ results = <<>>
    /\ procs = {}
    /\ report = [TotalRequests |-> 0, SuccessCount |-> 0, ErrorCount |-> 0,
                 AvgDurationMS |-> <<>>, ResponseCodes |-> EmptyMap,
                 CycleDetails |-> <<>>]
    /\ cycleStats = CycleStats(0)
    /\ totalDurations = <<>>
    /\ cycleDurations = <<>>
    /\ progressLog = <<>>
    /\ fault = "none"
    /\ obs = [cycle |-> ZeroObs, run |-> ZeroObs]

Init == InitWith(1..MaxWidth, 1..MaxCycles)

\* -------------------------------------------------- checkStatus (one probe)
\* A probe that records the text of the underlying error, without the
\* "Get <url>: " that *url.Error puts in front of it.
checkStatusResult_bareText(u, id, out) ==
    IF out.err
    THEN RequestResult(id, u, <<>>, Drop(out.text, Len(UrlErrorText(u, <<>>))),
                       DurationString(out.lat))
    ELSE RequestResult(id, u, out.resp.Status, <<>>, DurationString(out.lat))

\* The RequestResult checkStatus builds from what http.Get returned (lines
\* 50-63): Error is the text of err on the error path, Status is resp.Status
\* otherwise; Duration is the text of the elapsed time on both paths.
checkStatusResult(u, id, out) ==
    IF out.err
    THEN RequestResult(id, u, <<>>, out.text, DurationString(out.lat))
    ELSE RequestResult(id, u, out.resp.Status, <<>>, DurationString(out.lat))

\* Lines 48-57 and 62: http.Get returns (an error or a response) and the
\* result is built; the goroutine is left in front of its send.
Get(p, out) ==
    /\ fault = "none"
    /\ p.pc = "get"
    /\ procs' = (procs \ {p}) \cup
                {[p EXCEPT !.pc = "send", !.result = checkStatusResult(url, p.id, out)]}
    /\ obs' = [cycle |-> Observe(obs.cycle, out), run |-> Observe(obs.run, out)]
    /\ UNCHANGED <<ui, url, numGoroutines, maxCycles, pc, cycle, i, wg, results, report,
                   cycleStats, totalDurations, cycleDurations, progressLog, fault>>

\* Line 49 when the transport call never returns: http.Get uses the default
\* client, which sets no timeout, so a peer that never answers holds the
\* goroutine in the call for good.
Leak(p) ==
    /\ fault = "none"
    /\ p.pc = "get"
    /\ procs' = (procs \ {p}) \cup {[p EXCEPT !.pc = "leaked"]}
    /\ UNCHANGED <<ui, url, numGoroutines, maxCycles, pc, cycle, i, wg, results, report,
                   cycleStats, totalDurations, cycleDurations, progressLog, fault, obs>>

\* Lines 58 and 63: results <- result. A send on a closed channel panics; a
\* send on a full channel blocks.
Send(p) ==
    /\ fault = "none"
    /\ p.pc = "send"
    /\ LET ch == results[p.cycle] IN
         IF ch.closed
         THEN /\ fault' = "send on closed channel"
              /\ UNCHANGED <<results, procs>>
         ELSE /\ Len(ch.buf) < ch.cap
              /\ results' = [results EXCEPT ![p.cycle].buf = Append(@, p.result)]
              /\ procs' = (procs \ {p}) \cup {[p EXCEPT !.pc = "defer"]}
              /\ UNCHANGED fault
    /\ UNCHANGED <<ui, url, numGoroutines, maxCycles, pc, cycle, i, wg, report,
                   cycleStats, totalDurations, cycleDurations, progressLog, obs>>

\* Lines 47 and 61, on return: the deferred resp.Body.Close() and then the
\* deferred wg.Done(); the goroutine is gone. A counter below zero panics.
Done(p) ==
    /\ fault = "none"
    /\ p.pc = "defer"
    /\ IF wg[p.cycle] = 0
       THEN /\ fault' = "negative WaitGroup counter"
            /\ UNCHANGED <<wg, procs>>
       ELSE /\ wg' = [wg EXCEPT ![p.cycle] = @ - 1]
            /\ procs' = procs \ {p}
            /\ UNCHANGED fault
    /\ UNCHANGED <<ui, url, numGoroutines, maxCycles, pc, cycle, i, results, report,
                   cycleStats, totalDurations, cycleDurations, progressLog, obs>>

\* ------------------------------------------------------------- runAPITest
\* Line 74: the loop test.
LoopTest ==
    /\ fault = "none"
    /\ pc = "loop"
    /\ pc' = IF cycle <= maxCycles THEN "progress" ELSE "final"
    /\ UNCHANGED <<ui, url, numGoroutines, maxCycles, cycle, i, wg, results, procs, report,
                   cycleStats, totalDurations, cycleDurations, progressLog, fault, obs>>

\* A callback that is handed the zero-based index of the cycle.
progressArg_zeroBased(c) == c - 1

\* The argument of the callback at line 75.
progressArg(c) == c

\* An unbuffered channel: make(chan RequestResult).
chanCap_unbuffered(n) == 0

\* A channel one slot short of the number of probes.
chanCap_short(n) == IF n > 0 THEN n - 1 ELSE 0

\* The capacity of the channel made at line 78.
chanCap(n) == n

\* Lines 181-184, the callback runTest passes to runAPITest: the progress bar
\* is set to currentCycle / maxCycles (kept as the two terms of the quotient)
\* and the status label names the cycle.
updateProgress(u, currentCycle) ==
    [u EXCEPT !.progressBar = [num |-> currentCycle, den |-> maxCycles],
              !.statusLabel = <<"Executando ciclo ">> \o fmtInt(currentCycle) \o
                              <<" de ">> \o fmtInt(maxCycles) \o <<"...">>]

\* Lines 75-80: progress(cycle), a fresh WaitGroup and a fresh channel of
\* capacity numGoroutines, and the inner loop's i := 0 with its first test.
Progress ==
    /\ fault = "none"
    /\ pc = "progress"
    /\ progressLog' = Append(progressLog, progressArg(cycle))
    /\ ui' = updateProgress(ui, progressArg(cycle))
    /\ wg' = wg @@ (cycle :> 0)
    /\ results' = results @@ (cycle :> [buf |-> <<>>, cap |-> chanCap(numGoroutines), closed |-> FALSE])
    /\ i' = 0
    /\ pc' = IF 0 < numGoroutines THEN "spawn" ELSE "wait"
    /\ obs' = [obs EXCEPT !.cycle = ZeroObs]
    /\ UNCHANGED <<url, numGoroutines, maxCycles, cycle, procs, report, cycleStats,
                   totalDurations, cycleDurations, fault>>

\* Lines 80-83, one iteration: wg.Add(1), go checkStatus(url, i, &wg, results),
\* i++ and the loop test.
Spawn ==
    /\ fault = "none"
    /\ pc = "spawn"
    /\ wg' = [wg EXCEPT ![cycle] = @ + 1]
    /\ procs' = procs \cup {[cycle |-> cycle, id |-> i, pc |-> "get", result |-> ZeroResult]}
    /\ i' = i + 1
    /\ pc' = IF i + 1 < numGoroutines THEN "spawn" ELSE "wait"
    /\ UNCHANGED <<ui, url, numGoroutines, maxCycles, cycle, results, report, cycleStats,
                   totalDurations, cycleDurations, progressLog, fault, obs>>

\* A Wait that returns while one probe is still out.
WaitDone_early(counter) == counter <= 1

\* When wg.Wait() returns: the counter is zero.
WaitDone(counter) == counter = 0

\* Line 85: wg.Wait().
Wait ==
    /\ fault = "none"
    /\ pc = "wait"
    /\ WaitDone(wg[cycle])
    /\ pc' = "close"
    /\ UNCHANGED <<ui, url, numGoroutines, maxCycles, cycle, i, wg, results, procs, report,
                   cycleStats, totalDurations, cycleDurations, progressLog, fault, obs>>

\* A CycleStats numbered from zero.
newCycleStats_zeroBased(c) == CycleStats(c - 1)

\* Lines 88-91: the CycleStats of the cycle, all counts zero.
newCycleStats(c) == CycleStats(c)

\* Lines 86-92: close(results), then the cycle's empty statistics.
Close ==
    /\ fault = "none"
    /\ pc = "close"
    /\ results' = [results EXCEPT ![cycle].closed = TRUE]
    /\ cycleStats' = newCycleStats(cycle)
    /\ cycleDurations' = <<>>
    /\ pc' = "drain"
    /\ UNCHANGED <<ui, url, numGoroutines, maxCycles, cycle, i, wg, procs, report,
                   totalDurations, progressLog, fault, obs>>

\* A reduction that forgets report.ErrorCount++ (line 110).
reduce_noReportError(st, result) ==
    LET counted == [st EXCEPT !.report.TotalRequests = @ + 1,
                              !.cycleStats.TotalRequests = @ + 1]
    IN  IF result.Error = <<>>
        THEN LET statusCode == Sscanf_d(result.Status)
                 duration == ParseDuration(result.Duration)
             IN  [counted EXCEPT
                    !.report.SuccessCount = @ + 1,
                    !.cycleStats.SuccessCount = @ + 1,
                    !.report.ResponseCodes = Inc(@, statusCode),
                    !.cycleStats.ResponseCodes = Inc(@, statusCode),
                    !.totalDurations = Append(@, duration),
                    !.cycleDurations = Append(@, duration)]
        ELSE [counted EXCEPT !.cycleStats.ErrorCount = @ + 1]

\* A reduction that files a status code only when the scan produced one.
reduce_skipUnparsed(st, result) ==
    LET counted == [st EXCEPT !.report.TotalRequests = @ + 1,
                              !.cycleStats.TotalRequests = @ + 1]
    IN  IF result.Error = <<>>
        THEN LET statusCode == Sscanf_d(result.Status)
                 duration == ParseDuration(result.Duration)
                 filed == IF statusCode = 0 THEN counted
                          ELSE [counted EXCEPT
                                  !.report.ResponseCodes = Inc(@, statusCode),
                                  !.cycleStats.ResponseCodes = Inc(@, statusCode)]
             IN  [filed EXCEPT
                    !.report.SuccessCount = @ + 1,
                    !.cycleStats.SuccessCount = @ + 1,
                    !.totalDurations = Append(@, duration),
                    !.cycleDurations = Append(@, duration)]
        ELSE [counted EXCEPT !.report.ErrorCount = @ + 1,
                             !.cycleStats.ErrorCount = @ + 1]

\* A reduction that files the status code of every outcome, failed ones
\* included, in the histograms.
reduce_bucketFirst(st, result) ==
    LET statusCode == Sscanf_d(result.Status)
        counted == [st EXCEPT !.report.TotalRequests = @ + 1,
                              !.cycleStats.TotalRequests = @ + 1,
                              !.report.ResponseCodes = Inc(@, statusCode),
                              !.cycleStats.ResponseCodes = Inc(@, statusCode)]
    IN  IF result.Error = <<>>
        THEN LET duration == ParseDuration(result.Duration)
             IN  [counted EXCEPT
                    !.report.SuccessCount = @ + 1,
                    !.cycleStats.SuccessCount = @ + 1,
                    !.totalDurations = Append(@, duration),
                    !.cycleDurations = Append(@, duration)]
        ELSE [counted EXCEPT !.report.ErrorCount = @ + 1,
                             !.cycleStats.ErrorCount = @ + 1]

\* Lines 95-112, the body of the range loop for one received result, on
\* st = [report, cycleStats, totalDurations, cycleDurations].
reduce(st, result) ==
    LET counted == [st EXCEPT !.report.TotalRequests = @ + 1,
                              !.cycleStats.TotalRequests = @ + 1]
    IN  IF result.Error = <<>>
        THEN LET statusCode == Sscanf_d(result.Status)
                 duration == ParseDuration(result.Duration)
             IN  [counted EXCEPT
                    !.report.SuccessCount = @ + 1,
                    !.cycleStats.SuccessCount = @ + 1,
                    !.report.ResponseCodes = Inc(@, statusCode),
                    !.cycleStats.ResponseCodes = Inc(@, statusCode),
                    !.totalDurations = Append(@, duration),
                    !.cycleDurations = Append(@, duration)]
        ELSE [counted EXCEPT !.report.ErrorCount = @ + 1,
                             !.cycleStats.ErrorCount = @ + 1]

\* Line 94, one iteration: a result is received from the channel and reduced.
\* (An empty channel that is not closed blocks the receive.)
Reduce ==
    /\ fault = "none"
    /\ pc = "drain"
    /\ results[cycle].buf # <<>>
    /\ LET st == reduce([report |-> report, cycleStats |-> cycleStats,
                         totalDurations |-> totalDurations,
                         cycleDurations |-> cycleDurations],
                        Head(results[cycle].buf))
       IN  /\ report' = st.report
           /\ cycleStats' = st.cycleStats
           /\ totalDurations' = st.totalDurations
           /\ cycleDurations' = st.cycleDurations
    /\ results' = [results EXCEPT ![cycle].buf = Tail(@)]
    /\ UNCHANGED <<ui, url, numGoroutines, maxCycles, pc, cycle, i, wg, procs,
                   progressLog, fault, obs>>

\* An average taken without looking at the size of the pool.
NeedsAverage_always(durations) == TRUE

\* The guard of lines 115 and 123: an average is taken of a non-empty pool.
NeedsAverage(durations) == Len(durations) > 0

\* An average rounded to the nearest nanosecond instead of truncated.
calculateAverageDuration_rounded(durations) ==
    (SumSeq(durations) + Len(durations) \div 2) \div Len(durations)

\* An average that reports the first duration received.
calculateAverageDuration_first(durations) == Head(durations)

\* Lines 132-138: the sum divided by the count, truncated as Go's integer
\* division does. (Called with an empty slice it divides by zero: see Average.)
calculateAverageDuration(durations) == SumSeq(durations) \div Len(durations)

\* Lines 115-118 and 123-126: [fault, text], the text of the average when one
\* is taken, the text as it was otherwise.
Average(durations, text) ==
    IF ~NeedsAverage(durations) THEN [fault |-> "none", text |-> text]
    ELSE IF Len(durations) = 0 THEN [fault |-> "integer divide by zero", text |-> text]
    ELSE [fault |-> "none", text |-> DurationString(calculateAverageDuration(durations))]

\* Lines 94 (the channel is drained and closed: the range loop ends) and
\* 115-120, then cycle++ of line 74. cycleStats and cycleDurations go out of
\* scope with the iteration.
EndCycle ==
    /\ fault = "none"
    /\ pc = "drain"
    /\ results[cycle].buf = <<>>
    /\ results[cycle].closed
    /\ LET a == Average(cycleDurations, cycleStats.AvgDurationMS) IN
         IF a.fault # "none"
         THEN /\ fault' = a.fault
              /\ UNCHANGED <<report, cycleStats, cycleDurations, cycle, pc>>
         ELSE /\ report' = [report EXCEPT !.CycleDetails =
                               Append(@, [cycleStats EXCEPT !.AvgDurationMS = a.text])]
              /\ cycleStats' = CycleStats(0)
              /\ cycleDurations' = <<>>
              /\ cycle' = cycle + 1
              /\ pc' = "loop"
              /\ UNCHANGED fault
    /\ UNCHANGED <<ui, url, numGoroutines, maxCycles, i, wg, results, procs,
                   totalDurations, progressLog, obs>>

\* Lines 123-128: the run's average and the return of the report.
Final ==
    /\ fault = "none"
    /\ pc = "final"
    /\ LET a == Average(totalDurations, report.AvgDurationMS) IN
         IF a.fault # "none"
         THEN /\ fault' = a.fault
              /\ UNCHANGED <<report, pc>>
         ELSE /\ report' = [report EXCEPT !.AvgDurationMS = a.text]
              /\ pc' = "done"
              /\ UNCHANGED fault
    /\ UNCHANGED <<ui, url, numGoroutines, maxCycles, cycle, i, wg, results, procs,
                   cycleStats, totalDurations, cycleDurations, progressLog, obs>>

\* ------------------------------------------------------------------ runTest
\* strconv.Atoi (lines 167 and 168): [err, value]. An optional sign followed
\* by one or more decimal digits and nothing else; on a syntax error the value
\* is 0. (The texts of the model are short: none is out of the range of int.)
Atoi(text) ==
    LET signed == text # <<>> /\ Head(text) \in {"+", "-"}
        digits == IF signed THEN Tail(text) ELSE text
        v == digitsValue(digits, 0)
    IN  IF digits = <<>> \/ \E k \in 1..Len(digits) : ~IsDigit(digits[k])
        THEN [err |-> TRUE, value |-> 0]
        ELSE [err |-> FALSE, value |-> IF Head(text) = "-" THEN 0 - v ELSE v]

\* A validation that lets a zero width or a zero cycle count through.
invalidInput_zeroAllowed(u, err1, err2, n, c) ==
    u = <<>> \/ err1 \/ err2 \/ n < 0 \/ c < 0

\* The condition of line 170, on the URL text, the two errors and the two
\* values of Atoi.
invalidInput(u, err1, err2, n, c) ==
    u = <<>> \/ err1 \/ err2 \/ n <= 0 \/ c <= 0

\* Lines 165-187: the button's handler up to the call of runAPITest. The
\* entries are read and converted; invalid input puts the validation message
\* in the result label and returns; otherwise the widgets are cleared and
\* runAPITest is called with updateProgress as its callback.
RunTest ==
    /\ fault = "none"
    /\ pc = "runTest"
    /\ LET n == Atoi(ui.goroutinesEntry)
           c == Atoi(ui.cyclesEntry)
       IN  /\ url' = ui.urlEntry
           /\ numGoroutines' = n.value
           /\ maxCycles' = c.value
           /\ IF invalidInput(ui.urlEntry, n.err, c.err, n.value, c.value)
              THEN /\ ui' = [ui EXCEPT !.resultLabel = ValidationMessage]
                   /\ pc' = "rejected"
              ELSE /\ ui' = ClearedWidgets(ui.urlEntry, ui.goroutinesEntry, ui.cyclesEntry)
                   /\ pc' = "loop"
    /\ UNCHANGED <<cycle, i, wg, results, procs, report, cycleStats, totalDurations,
                   cycleDurations, progressLog, fault, obs>>

\* Lines 190-200: the report returned by runAPITest is shown, the progress bar
\* is filled and the status label says the run is over.
ShowResults ==
    /\ fault = "none"
    /\ pc = "done"
    /\ ui' = [ui EXCEPT
                !.resultLabel = <<"Total Requests: ">> \o fmtInt(report.TotalRequests) \o
                                <<"\nSuccess: ">> \o fmtInt(report.SuccessCount) \o
                                <<"\nErrors: ">> \o fmtInt(report.ErrorCount) \o
                                <<"\nAvg Duration: ">> \o report.AvgDurationMS,
                !.progressBar = [num |-> 1, den |-> 1],
                !.statusLabel = FinishedStatus]
    /\ pc' = "shown"
    /\ UNCHANGED <<url, numGoroutines, maxCycles, cycle, i, wg, results, procs, report,
                   cycleStats, totalDurations, cycleDurations, progressLog, fault, obs>>

\* The steps of runAPITest's control thread.
Runner == LoopTest \/ Progress \/ Spawn \/ Wait \/ Close \/ Reduce \/ EndCycle \/ Final

\* The steps of the probes whose transport call returns.
Probes ==
    \E p \in procs :
        \/ \E out \in HttpGetOutcomes(url) : Get(p, out)
        \/ Send(p)
        \/ Done(p)

\* A probe's transport call turns out never to return.
Leaks == \E p \in procs : Leak(p)

Next == Runner \/ Probes \/ Leaks \/ ShowResults

Spec == Init /\ [][Next]_vars

\* runAPITest called by a caller that does not validate the width: line 67
\* accepts any int, and a loop bound of zero is the smallest width for which
\* the code is still defined.
WideInit == InitWith(0..MaxWidth, 1..MaxCycles)

WideSpec == WideInit /\ [][Next]_vars

\* What the user may have typed in the two number entries when the button is
\* pressed: nothing, zero, a negative number, numerals with and without a
\* sign, and texts that are no numerals.
EntryTexts ==
    { <<>>, <<"0">>, <<"1">>, <<"2">>, <<"-", "1">>, <<"+", "1">>,
      <<"x">>, <<"2", "x">>, <<" ", "1">>, <<"1", " ">>, <<"+">> }

\* The window as main builds it (lines 148-162), the entries holding what the
\* user typed, at the press of the button; the locals of runAPITest are as
\* its entry sets them.
UIInit ==
    /\ ui \in [urlEntry : {<<>>, TargetURL},
                goroutinesEntry : EntryTexts,
                cyclesEntry : EntryTexts,
                resultLabel : {ResultsPlaceholder},
                progressBar : {[num |-> 0, den |-> 1]},
                statusLabel : {WaitingStatus}]
    /\ url = <<>>
    /\ numGoroutines = 0
    /\ maxCycles = 0
    /\ pc = "runTest"
    /\ cycle = 1
    /\ i = 0
    /\ wg = <<>>
    /\ results = <<>>
    /\ procs = {}
    /\ report = [TotalRequests |-> 0, SuccessCount |-> 0, ErrorCount |-> 0,
                 AvgDurationMS |-> <<>>, ResponseCodes |-> EmptyMap,
                 CycleDetails |-> <<>>]
    /\ cycleStats = CycleStats(0)
    /\ totalDurations = <<>>
    /\ cycleDurations = <<>>
    /\ progressLog = <<>>
    /\ fault = "none"
    /\ obs = [cycle |-> ZeroObs, run |-> ZeroObs]

UINext == RunTest \/ Next

UISpec == UIInit /\ [][UINext]_vars

\* The scheduler runs every goroutine that can take a step; that a transport
\* call returns at all is not something it guarantees.
LiveSpec == Spec /\ WF_vars(Runner) /\ WF_vars(Probes)

\* ------------------------------------------------------------ properties
CycleDetails == report.CycleDetails

\* The sum of the values of a map[int]int.
RECURSIVE MapSum(_)
MapSum(m) ==
    IF DOMAIN m = {} THEN 0
    ELSE LET k == CHOOSE x \in DOMAIN m : TRUE
         IN  m[k] + MapSum([x \in DOMAIN m \ {k} |-> m[x]])

\* m[k] as Go reads it: 0 for an absent key.
At(m, k) == IF k \in DOMAIN m THEN m[k] ELSE 0

\* The sum of field f(cs) over the cycles recorded so far.
RECURSIVE SumCycles(_, _)
SumCycles(f(_), n) == IF n = 0 THEN 0 ELSE f(CycleDetails[n]) + SumCycles(f, n - 1)

CsTotal(cs) == cs.TotalRequests
CsSuccess(cs) == cs.SuccessCount
CsError(cs) == cs.ErrorCount

\* C1: for every width N >= 1 and every interleaving of the probes, each
\* recorded CycleStats has TotalRequests = N and SuccessCount + ErrorCount =
\* TotalRequests; while the channel is drained, the outcomes counted and the
\* outcomes still in the channel add up to N (none dropped, none twice).
C1_CycleCounts ==
    numGoroutines >= 1 =>
      /\ \A k \in 1..Len(CycleDetails) :
            /\ CycleDetails[k].TotalRequests = numGoroutines
            /\ CycleDetails[k].SuccessCount + CycleDetails[k].ErrorCount
                 = CycleDetails[k].TotalRequests
      /\ pc = "drain" =>
            /\ cycleStats.TotalRequests + Len(results[cycle].buf) = numGoroutines
            /\ cycleStats.SuccessCount + cycleStats.ErrorCount = cycleStats.TotalRequests

\* A run of width 2 has returned with a cycle of one success and one error.
C1_Witness ==
    /\ pc = "done"
    /\ numGoroutines = 2
    /\ \E k \in 1..Len(CycleDetails) :
          CycleDetails[k].SuccessCount = 1 /\ CycleDetails[k].ErrorCount = 1

\* C2: when runAPITest returns (and after every completed cycle), the run's
\* TotalRequests, SuccessCount, ErrorCount and every ResponseCodes bucket are
\* the sums of the same fields over CycleDetails, and on return TotalRequests
\* is numGoroutines * maxCycles.
C2_RunIsSumOfCycles ==
    pc \in {"loop", "final", "done"} =>
      /\ report.TotalRequests = SumCycles(CsTotal, Len(CycleDetails))
      /\ report.SuccessCount = SumCycles(CsSuccess, Len(CycleDetails))
      /\ report.ErrorCount = SumCycles(CsError, Len(CycleDetails))
      /\ DOMAIN report.ResponseCodes =
            UNION {DOMAIN CycleDetails[k].ResponseCodes : k \in 1..Len(CycleDetails)}
      /\ \A code \in DOMAIN report.ResponseCodes :
            LET CsBucket(cs) == At(cs.ResponseCodes, code)
            IN  report.ResponseCodes[code] = SumCycles(CsBucket, Len(CycleDetails))
      /\ pc = "done" => report.TotalRequests = numGoroutines * maxCycles

\* A run of two cycles of width 2 has returned, with errors and with a status
\* code that both cycles saw.
C2_Witness ==
    /\ pc = "done"
    /\ numGoroutines = 2 /\ maxCycles = 2
    /\ report.ErrorCount = 2
    /\ At(CycleDetails[1].ResponseCodes, 200) = 1
    /\ At(CycleDetails[2].ResponseCodes, 200) = 1

\* C3: the values of the response-code histogram add up to SuccessCount, in
\* the CycleStats being built, in every recorded CycleStats and in the Report,
\* after every outcome reduced (a Status without a number included).
C3_HistogramSum ==
    /\ MapSum(cycleStats.ResponseCodes) = cycleStats.SuccessCount
    /\ MapSum(report.ResponseCodes) = report.SuccessCount
    /\ \A k \in 1..Len(CycleDetails) :
          MapSum(CycleDetails[k].ResponseCodes) = CycleDetails[k].SuccessCount

\* An outcome whose Status holds no number has been reduced, next to one with
\* a number, in a cycle that is still being drained.
C3_Witness ==
    /\ pc = "drain"
    /\ At(cycleStats.ResponseCodes, 0) = 1
    /\ At(cycleStats.ResponseCodes, 500) = 1
    /\ obs.cycle.codes = cycleStats.ResponseCodes

\* C4: an outcome counts as succeeded exactly when the transport call returned
\* no error, whatever the text of the error and whatever the HTTP status. Once
\* a cycle's channel is drained, ErrorCount is the number of transport errors
\* of the cycle, SuccessCount the number of completed exchanges, each bucket
\* the number of completed exchanges with that status code, and the latency
\* pool holds the latencies of the completed exchanges only; the same holds of
\* the Report over the whole run after every completed cycle.
C4_Classification ==
    /\ (pc = "drain" /\ results[cycle].buf = <<>>) =>
          /\ cycleStats.ErrorCount = obs.cycle.err
          /\ cycleStats.SuccessCount = obs.cycle.ok
          /\ cycleStats.ResponseCodes = obs.cycle.codes
          /\ Len(cycleDurations) = obs.cycle.ok
          /\ SumSeq(cycleDurations) = obs.cycle.latSum
    /\ pc \in {"loop", "final", "done"} =>
          /\ report.ErrorCount = obs.run.err
          /\ report.SuccessCount = obs.run.ok
          /\ report.ResponseCodes = obs.run.codes
          /\ Len(totalDurations) = obs.run.ok
          /\ SumSeq(totalDurations) = obs.run.latSum

\* A cycle has been drained in which one transport call failed with an error
\* whose underlying text is empty and another completed with status 500.
C4_Witness ==
    /\ pc = "drain"
    /\ results[cycle].buf = <<>>
    /\ obs.cycle.bare = 1
    /\ cycleStats.ErrorCount = 1
    /\ At(cycleStats.ResponseCodes, 500) = 1

\* C5: the average latency is unset exactly when SuccessCount is 0, in every
\* recorded CycleStats and in the returned Report, and no division by zero
\* happens.
C5_AverageSetIffSuccess ==
    /\ fault # "integer divide by zero"
    /\ \A k \in 1..Len(CycleDetails) :
          (CycleDetails[k].AvgDurationMS = <<>>) <=> (CycleDetails[k].SuccessCount = 0)
    /\ pc = "done" => ((report.AvgDurationMS = <<>>) <=> (report.SuccessCount = 0))

\* A run has returned whose first cycle had no success (average unset) and
\* whose second cycle had successes of zero latency (average set, "0s").
C5_Witness ==
    /\ pc = "done"
    /\ maxCycles = 2
    /\ CycleDetails[1].SuccessCount = 0
    /\ CycleDetails[1].AvgDurationMS = <<>>
    /\ CycleDetails[2].SuccessCount > 0
    /\ CycleDetails[2].AvgDurationMS = <<"0", "s">>
    /\ report.AvgDurationMS = <<"0", "s">>

\* C6: the run's average is the text of the truncated quotient of the sum of
\* the latencies of all completed exchanges of the run by their number.
C6_WeightedAverage ==
    (pc = "done" /\ obs.run.ok > 0) =>
        report.AvgDurationMS = DurationString(obs.run.latSum \div obs.run.ok)

\* A run of two cycles with different success counts has returned, and its
\* average is not the mean of the two cycle averages.
C6_Witness ==
    /\ pc = "done"
    /\ maxCycles = 2
    /\ CycleDetails[1].SuccessCount > 0
    /\ CycleDetails[2].SuccessCount > 0
    /\ CycleDetails[1].SuccessCount # CycleDetails[2].SuccessCount
    /\ ParseDuration(report.AvgDurationMS) #
          (ParseDuration(CycleDetails[1].AvgDurationMS)
             + ParseDuration(CycleDetails[2].AvgDurationMS)) \div 2

\* C7: the callback has been called with 1, 2, ... in this order, once for
\* every cycle begun; every probe launched belongs to a cycle the callback was
\* already called for; on return it has been called maxCycles times.
C7_ProgressOrder ==
    /\ progressLog = [k \in 1..Len(progressLog) |-> k]
    /\ Len(progressLog) =
          IF pc \in {"loop", "progress", "final", "done", "shown"} THEN cycle - 1
          ELSE cycle
    /\ \A p \in procs : p.cycle \in 1..Len(progressLog)
    /\ pc = "done" => Len(progressLog) = maxCycles

\* The probes of the second cycle are out, after the calls for 1 and 2.
C7_Witness ==
    /\ progressLog = <<1, 2>>
    /\ \E p \in procs : p.cycle = 2

\* C8: all probes in flight belong to the current cycle and there are at most
\* numGoroutines of them; none is left once wg.Wait() has returned, so none of
\* the next cycle is launched before.
C8_NoOverlap ==
    /\ \A p \in procs : p.cycle = cycle
    /\ Cardinality(procs) <= numGoroutines
    /\ pc \in {"close", "drain", "loop", "progress", "final", "done"} => procs = {}

\* Both probes of the second cycle of a run of width 2 are in flight.
C8_Witness ==
    /\ cycle = 2
    /\ numGoroutines = 2
    /\ Cardinality(procs) = 2

\* C9: CycleDetails holds the cycles 1..k in this order (k the number of
\* cycles completed), and on return k is maxCycles.
C9_CycleDetailsOrder ==
    /\ \A k \in 1..Len(CycleDetails) : CycleDetails[k].CycleNumber = k
    /\ Len(CycleDetails) = cycle - 1
    /\ pc = "done" => Len(CycleDetails) = maxCycles

\* A run of two cycles has returned.
C9_Witness ==
    /\ pc = "done"
    /\ Len(CycleDetails) = 2

\* C10: a probe whose transport call never returns leads to a hard failure of
\* the run (instead of a run that stays blocked for good).
C10_LeakLeadsToFailure ==
    (\E p \in procs : p.pc = "leaked") ~> (fault # "none")

\* C11: when every transport call returns and the goroutines are scheduled
\* fairly, runAPITest returns; and whenever it returns, the Report covers all
\* maxCycles cycles with every probe accounted for, also when every probe
\* failed.
C11_ReturnsComplete ==
    /\ [](pc = "done" =>
            /\ Len(CycleDetails) = maxCycles
            /\ report.TotalRequests = numGoroutines * maxCycles
            /\ report.SuccessCount + report.ErrorCount = report.TotalRequests
            /\ procs = {})
    /\ <>(pc = "done" \/ \E p \in procs : p.pc = "leaked")

\* A run of two cycles of width 2 has returned in which every probe failed.
C11_Witness ==
    /\ pc = "done"
    /\ numGoroutines = 2 /\ maxCycles = 2
    /\ report.ErrorCount = 4
    /\ Len(CycleDetails) = 2

\* C12: when every probe of every cycle failed in the transport, the returned
\* Report counts numGoroutines * maxCycles errors and no success, its average
\* is unset and its histogram has no bucket at all, the zero code included;
\* the same holds for each CycleStats of the run.
C12_AllFailed ==
    (pc = "done" /\ obs.run.ok = 0) =>
        /\ report.ErrorCount = numGoroutines * maxCycles
        /\ report.SuccessCount = 0
        /\ report.AvgDurationMS = <<>>
        /\ DOMAIN report.ResponseCodes = {}
        /\ \A k \in 1..Len(CycleDetails) :
               /\ CycleDetails[k].ErrorCount = numGoroutines
               /\ CycleDetails[k].AvgDurationMS = <<>>
               /\ DOMAIN CycleDetails[k].ResponseCodes = {}

\* A run of two cycles of width 2 has returned after four transport errors,
\* one of them with an empty underlying text.
C12_Witness ==
    /\ pc = "done"
    /\ numGoroutines = 2 /\ maxCycles = 2
    /\ obs.run.ok = 0 /\ obs.run.err = 4 /\ obs.run.bare >= 1

\* The goroutines of cycle c that have not sent their result yet.
Unsent(c) == {p \in procs : p.cycle = c /\ p.pc \in {"get", "send", "leaked"}}

\* C13: a channel never holds more than its capacity, which is numGoroutines,
\* and it always has a free slot for each goroutine that has yet to send; so
\* the send of a goroutine standing at line 58 or 63 is never blocked, whether
\* or not the runner has started to receive, and the runner is never left at
\* wg.Wait() with a goroutine stuck in front of a full channel.
C13_SendNeverBlocks ==
    /\ \A c \in DOMAIN results :
          /\ results[c].cap = numGoroutines
          /\ Len(results[c].buf) + Cardinality(Unsent(c)) <= results[c].cap
    /\ \A p \in procs :
          p.pc = "send" => Len(results[p.cycle].buf) < results[p.cycle].cap

\* The runner is at wg.Wait(), one result of a cycle of width 2 is buffered,
\* nothing has been received, and the other goroutine is about to send.
C13_Witness ==
    /\ pc = "wait"
    /\ numGoroutines = 2
    /\ Len(results[cycle].buf) = 1
    /\ \E p \in procs : p.cycle = cycle /\ p.pc = "send"

\* The goroutines of cycle c that have not returned yet.
InFlight(c) == {p \in procs : p.cycle = c}

\* C14: a channel is closed only once the WaitGroup counter of its cycle is
\* zero and every goroutine of the cycle has returned; the counter equals the
\* number of goroutines not yet returned, and a goroutine that is about to
\* call wg.Done() has already sent its result; so no send ever hits a closed
\* channel, close finds exactly numGoroutines results in the channel, and the
\* range loop receives those and no more.
C14_CloseAfterBarrier ==
    /\ fault # "send on closed channel"
    /\ \A c \in DOMAIN results :
          /\ wg[c] = Cardinality(InFlight(c))
          /\ results[c].closed => wg[c] = 0 /\ InFlight(c) = {}
          /\ \A p \in InFlight(c) :
                p.pc = "defer" =>
                    \E k \in 1..Len(results[c].buf) : results[c].buf[k] = p.result
    /\ pc = "close" =>
          /\ ~results[cycle].closed
          /\ Len(results[cycle].buf) = numGoroutines
    /\ pc = "drain" =>
          /\ results[cycle].closed
          /\ cycleStats.TotalRequests + Len(results[cycle].buf) = numGoroutines

\* The channel of a cycle of width 2 is closed and both results have been
\* received: the range loop is about to end.
C14_Witness ==
    /\ pc = "drain"
    /\ numGoroutines = 2
    /\ results[cycle].closed
    /\ results[cycle].buf = <<>>
    /\ cycleStats.TotalRequests = 2

\* Lines 94-113 over a whole channel content: the results are reduced one
\* after the other in the order they are received.
RECURSIVE drain(_, _)
drain(st, buf) ==
    IF buf = <<>> THEN st ELSE drain(reduce(st, Head(buf)), Tail(buf))

\* The CycleStats line 120 appends when the range loop, from where it stands,
\* receives buf (lines 94-118).
cycleOutcome(buf) ==
    LET st == drain([report |-> report, cycleStats |-> cycleStats,
                     totalDurations |-> totalDurations,
                     cycleDurations |-> cycleDurations], buf)
        a == Average(st.cycleDurations, st.cycleStats.AvgDurationMS)
    IN  [fault |-> a.fault, stats |-> [st.cycleStats EXCEPT !.AvgDurationMS = a.text]]

\* buf in the order given by the permutation f of its indices.
Reordered(buf, f) == [k \in 1..Len(buf) |-> buf[f[k]]]

\* C15: the results close(results) finds in the channel carry each ID of
\* 0..numGoroutines-1 exactly once; and at every point of the range loop, the
\* CycleStats of the cycle (counts, histogram, average) comes out the same
\* whatever the order in which the results still in the channel had arrived.
C15_OrderIndependent ==
    /\ pc = "close" =>
          LET buf == results[cycle].buf IN
            /\ Len(buf) = numGoroutines
            /\ \A id \in 0..(numGoroutines - 1) :
                  Cardinality({k \in 1..Len(buf) : buf[k].ID = id}) = 1
    /\ pc = "drain" =>
          LET buf == results[cycle].buf IN
            \A f \in Permutations(1..Len(buf)) :
                cycleOutcome(Reordered(buf, f)) = cycleOutcome(buf)

\* The range loop is about to start on a channel in which the result of
\* goroutine 1 arrived before that of goroutine 0, both exchanges completed,
\* with different latencies and different status codes.
C15_Witness ==
    /\ pc = "drain"
    /\ numGoroutines = 2
    /\ Len(results[cycle].buf) = 2
    /\ results[cycle].buf[1].ID = 1 /\ results[cycle].buf[2].ID = 0
    /\ results[cycle].buf[1].Error = <<>> /\ results[cycle].buf[2].Error = <<>>
    /\ results[cycle].buf[1].Duration # results[cycle].buf[2].Duration
    /\ results[cycle].buf[1].Status # results[cycle].buf[2].Status

\* C16: called with numGoroutines = 0, runAPITest launches no goroutine,
\* raises no panic and is never blocked (until it has returned, its control
\* thread always has a step to take: wg.Wait() returns at once and the range
\* loop ends at once on the closed empty channel); every CycleStats it
\* records has all counts zero, no bucket and an unset average; and it returns
\* with maxCycles of them.
C16_ZeroWidth ==
    numGoroutines = 0 =>
        /\ fault = "none"
        /\ procs = {}
        /\ pc \notin {"done", "shown"} => ENABLED Runner
        /\ \A k \in 1..Len(CycleDetails) : CycleDetails[k] = CycleStats(k)
        /\ report.TotalRequests = 0
        /\ report.AvgDurationMS = <<>>
        /\ pc = "done" => Len(CycleDetails) = maxCycles

\* A run of width 0 has returned with two cycles recorded and two progress
\* calls made.
C16_Witness ==
    /\ numGoroutines = 0
    /\ pc = "done"
    /\ maxCycles = 2
    /\ Len(CycleDetails) = 2
    /\ Len(progressLog) = 2

\* C17: a step of a probe goroutine leaves the Report, the cycle's CycleStats,
\* the duration pools and every other variable of the control thread as they
\* are (it touches the channel, the WaitGroup counter and the goroutine's own
\* state only); and no step at all changes the Report or the CycleStats while
\* a goroutine of the current cycle has yet to return.
C17_ReportOwnedByRunner ==
    [][/\ (Probes \/ Leaks) =>
             UNCHANGED <<ui, url, numGoroutines, maxCycles, pc, cycle, i, report,
                         cycleStats, totalDurations, cycleDurations, progressLog>>
       /\ InFlight(cycle) # {} =>
             UNCHANGED <<report, cycleStats, totalDurations, cycleDurations>>]_vars

\* In the second cycle, with the Report holding the first cycle's counts, one
\* goroutine has sent its result and another has yet to return.
C17_Witness ==
    /\ cycle = 2
    /\ report.TotalRequests > 0
    /\ cycle \in DOMAIN results
    /\ Len(results[cycle].buf) >= 1
    /\ \E p \in InFlight(cycle) : p.pc \in {"get", "send"}

\* C18: every step that invokes the progress callback, with argument k, is
\* taken in a state where no goroutine exists, k - 1 CycleStats have been
\* appended to CycleDetails and report.TotalRequests is (k - 1) *
\* numGoroutines; and the step itself starts no goroutine.
C18_ProgressBetweenCycles ==
    [][progressLog' # progressLog =>
         LET k == progressLog'[Len(progressLog')] IN
           /\ Len(progressLog') = Len(progressLog) + 1
           /\ procs = {} /\ procs' = {}
           /\ Len(CycleDetails) = k - 1
           /\ report.TotalRequests = (k - 1) * numGoroutines]_vars

\* The callback has just been invoked for the second cycle of a run of width
\* 2, after the two requests of the first cycle.
C18_Witness ==
    /\ progressLog = <<1, 2>>
    /\ pc = "spawn" /\ i = 0
    /\ numGoroutines = 2
    /\ report.TotalRequests = 2
    /\ Len(CycleDetails) = 1

\* The texts that denote the integer n >= 0: an optional plus sign, optional
\* leading zeros and the decimal digits of n.
Numerals(n) ==
    { sign \o zeros \o fmtInt(n) :
        sign \in {<<>>, <<"+">>}, zeros \in {<<>>, <<"0">>, <<"0", "0">>} }

\* The texts that denote a positive integer (of one or two digits, which
\* covers every text of EntryTexts).
PositiveNumerals == UNION {Numerals(n) : n \in 1..99}

\* The entries hold something runTest must refuse.
InvalidEntries ==
    \/ ui.urlEntry = <<>>
    \/ ui.goroutinesEntry \notin PositiveNumerals
    \/ ui.cyclesEntry \notin PositiveNumerals

\* C19: once the button's handler has read the entries, runAPITest is running
\* or has run only if the URL entry is not empty and both number entries are
\* numerals of positive integers, and then it was called with exactly these;
\* on any other input the handler has returned with the validation message in
\* the result label, no goroutine was started, no channel or WaitGroup made,
\* nothing counted, and the progress callback was never invoked.
C19_InvalidInputRejected ==
    pc # "runTest" =>
        /\ ~InvalidEntries =>
              /\ pc # "rejected"
              /\ url = ui.urlEntry /\ url # <<>>
              /\ numGoroutines > 0 /\ maxCycles > 0
              /\ ui.goroutinesEntry \in Numerals(numGoroutines)
              /\ ui.cyclesEntry \in Numerals(maxCycles)
        /\ InvalidEntries =>
              /\ pc = "rejected"
              /\ ui.resultLabel = ValidationMessage
              /\ procs = {} /\ wg = <<>> /\ results = <<>>
              /\ progressLog = <<>>
              /\ report.TotalRequests = 0
              /\ fault = "none"

\* The handler has returned on a width of zero, the URL and the cycle count
\* being valid.
C19_Witness ==
    /\ pc = "rejected"
    /\ ui.urlEntry = TargetURL
    /\ ui.goroutinesEntry = <<"0">>
    /\ ui.cyclesEntry = <<"2">>
    /\ ui.resultLabel = ValidationMessage

====
